---- MODULE Spec2Model ----
(***************************************************************************)
(* MineGuard backend: the POST /predict handler (app/main.py) and the      *)
(* risk classifier it calls (app/models/predictor.py).                     *)
(*                                                                         *)
(* Numbers.  Python floats are modelled as scaled integers:                *)
(*   - feature values and coordinates in thousandths (10.0 is 10000),      *)
(*   - probabilities in units of 1e-5 (0.7 is 70000, 0.70001 is 70001).    *)
(* A JSON / Python value is a record [k, v]:                               *)
(*   k = "absent"  the key is not in the mapping                           *)
(*   k = "null"    None                                                    *)
(*   k = "num"     a finite number, value v                                *)
(*   k = "inf"     a value float() turns into +inf (JSON 1e999, "inf")     *)
(*   k = "str"     a value float() rejects ("abc", a list)                 *)
(*   k = "dict"    a mapping (only the weather snapshot's "rain")          *)
(***************************************************************************)
EXTENDS Integers, FiniteSets, Sequences, TLC

VARIABLES
    pc,             \* position of the handler: idle, weather, slope, sensor, classify, done
    model,          \* predictor.model: "loaded" or "none", fixed at import
    body,           \* the parsed JSON body of the request being handled
    lat, lon,       \* float(lat), float(lon)
    weather_data,   \* the weather snapshot the handler keeps ({} when none)
    demo_overrides, \* the demo table built by the handler
    demo_key,       \* (round(lat, 1), round(lon, 1))
    slope_lookup,   \* what get_slope returned
    sensor_state,   \* what get_latest_sensor_state returned
    features,       \* the features dict
    calls,          \* collaborators invoked while handling this request
    prob,           \* the raw probability predict_proba returned (-1: none)
    result,         \* the prediction dict risk_score returned
    status,         \* HTTP status of the response (0: no response yet)
    error,          \* the response's "error" text
    details,        \* whether the response carries "details"
    alert           \* the response's "alert"

vars == <<pc, model, body, lat, lon, weather_data, demo_overrides, demo_key,
          slope_lookup, sensor_state, features, calls, prob, result, status,
          error, details, alert>>

---------------------------------------------------------------------------
(* Values *)

Absent == [k |-> "absent", v |-> 0]
Null == [k |-> "null", v |-> 0]
Str == [k |-> "str", v |-> 0]
Inf == [k |-> "inf", v |-> 0]
Dict == [k |-> "dict", v |-> 0]
Raise == [k |-> "raise", v |-> 0]
NotCalled == [k |-> "notcalled", v |-> 0]
Num(n) == [k |-> "num", v |-> n]

\* m.get(key, default)
Get(m, key, default) == IF m[key].k = "absent" THEN default ELSE m[key]

\* x is None
IsNone(x) == x.k = "null"

\* a value is supplied: the key is there and is not null
Available(x) == x.k \notin {"absent", "null"}

\* float(x) succeeds
Floatable(x) == x.k \in {"num", "inf"}

\* a finite float
Finite(x) == x.k = "num"

---------------------------------------------------------------------------
(* Bounds and input sets *)

\* at most this many of the eight optional feature keys are present in a body
MaxOverrides == 2

OverrideKeys == {"slope", "rainfall", "rain", "temperature", "vibration",
                 "wind_speed", "displacement_rate", "displacement"}
FeatureKeys == {"rainfall", "temperature", "slope", "wind_speed",
                "displacement_rate", "vibration"}

Overrides ==
    {ov \in [slope : {Absent, Null, Num(40000), Num(500), Num(-5000), Str},
             rainfall : {Absent, Null, Num(5000), Inf},
             rain : {Absent, Num(7000), Str},
             temperature : {Absent, Null, Num(18000), Str},
             vibration : {Absent, Null, Num(1200)},
             wind_speed : {Absent, Null, Num(4000)},
             displacement_rate : {Absent, Null, Num(200), Str},
             displacement : {Absent, Null, Num(50), Str}] :
        Cardinality({key \in OverrideKeys : ov[key] # Absent}) <= MaxOverrides}

NoOverrides ==
    [slope |-> Absent, rainfall |-> Absent, rain |-> Absent, temperature |-> Absent,
     vibration |-> Absent, wind_speed |-> Absent, displacement_rate |-> Absent,
     displacement |-> Absent]

MakeBody(co, ov) ==
    [lat |-> co.lat, latitude |-> co.latitude, lon |-> co.lon, longitude |-> co.longitude,
     slope |-> ov.slope, rainfall |-> ov.rainfall, rain |-> ov.rain,
     temperature |-> ov.temperature, vibration |-> ov.vibration,
     wind_speed |-> ov.wind_speed, displacement_rate |-> ov.displacement_rate,
     displacement |-> ov.displacement]

\* every way of giving, withholding or garbling the four coordinate keys
CoordForms ==
    [lat : {Absent, Null, Str, Num(23040)}, latitude : {Absent, Null, Str, Num(23040)},
     lon : {Absent, Null, Str, Num(86530)}, longitude : {Absent, Null, Str, Num(86530)}]

\* valid coordinates: Jharia (23.04, 86.53), Talcher by the long names, a non-demo site
Sites ==
    {[lat |-> Num(23040), latitude |-> Absent, lon |-> Num(86530), longitude |-> Absent],
     [lat |-> Absent, latitude |-> Num(22310), lon |-> Absent, longitude |-> Num(84790)],
     [lat |-> Num(23060), latitude |-> Absent, lon |-> Num(86530), longitude |-> Absent]}

Bodies ==
    {MakeBody(co, NoOverrides) : co \in CoordForms}
    \cup {MakeBody(co, ov) : co \in Sites, ov \in Overrides}

NoBody == MakeBody([lat |-> Absent, latitude |-> Absent, lon |-> Absent,
                    longitude |-> Absent], NoOverrides)

\* a weather mapping; rain is a number, null, absent, or a mapping with "1h" / "3h"
EmptyWeather ==
    [temp |-> Absent, wind_speed |-> Absent, rain_1h |-> Absent, rain |-> Absent,
     rain1h |-> Absent, rain3h |-> Absent]

WeatherDicts ==
    {EmptyWeather,
     [EmptyWeather EXCEPT !.temp = Num(20000), !.wind_speed = Num(5000),
                          !.rain = Dict, !.rain3h = Num(9000)],
     [EmptyWeather EXCEPT !.temp = Num(20000), !.wind_speed = Num(5000),
                          !.rain_1h = Num(2000)],
     [EmptyWeather EXCEPT !.temp = Null, !.wind_speed = Null, !.rain = Num(4000)],
     [EmptyWeather EXCEPT !.temp = Str, !.wind_speed = Num(5000), !.rain = Dict,
                          !.rain1h = Num(1000), !.rain3h = Num(9000)],
     [EmptyWeather EXCEPT !.temp = Num(20000), !.rain_1h = Null, !.rain = Dict]}

\* what fetch_openweather does: returns a mapping, returns something else, raises
WeatherOutcomes ==
    {[kind |-> "dict", data |-> d] : d \in WeatherDicts}
    \cup {[kind |-> "other", data |-> EmptyWeather], [kind |-> "raise", data |-> EmptyWeather]}

\* what get_slope does: returns degrees, None, something non-numeric, or raises
SlopeOutcomes == {Num(40000), Num(500), Null, Str, Raise}

\* what get_latest_sensor_state does: returns a mapping, something else, or raises
SensorOutcomes ==
    {[kind |-> "dict", vibration |-> Num(2500)], [kind |-> "dict", vibration |-> Absent],
     [kind |-> "dict", vibration |-> Null], [kind |-> "dict", vibration |-> Str],
     [kind |-> "other", vibration |-> Absent], [kind |-> "raise", vibration |-> Absent]}

NoSensor == [kind |-> "notcalled", vibration |-> Absent]

\* what model.predict_proba does: returns a probability or raises
ModelOutcomes == {Num(55000), Num(82000), Raise}

---------------------------------------------------------------------------
(* app/main.py: predict, the pure parts *)

DefaultRainfall == 10000
DefaultTemperature == 25000
DefaultSlope == 30000
DefaultWindSpeed == 2000
DefaultDisplacementRate == 10
DefaultVibration == 0

\* round(x, 1) on thousandths: the nearest multiple of unit; a decimal tie falls
\* whichever way the binary float lies, so both neighbours are possible
Rounded(x, unit) ==
    LET lo == (x \div unit) * unit
        r == x - lo
    IN  IF 2 * r < unit THEN {lo}
        ELSE IF 2 * r > unit THEN {lo + unit}
        ELSE {lo, lo + unit}

RoundedValue(x) == IF x.k = "num" THEN {Num(r) : r \in Rounded(x.v, 100)} ELSE {x}

\* _to_float(v, default)
ToFloat(v, default) ==
    IF IsNone(v) THEN Num(default)
    ELSE IF Floatable(v) THEN v
    ELSE Num(default)

\* body.get("lat", body.get("latitude")) and body.get("lon", body.get("longitude"))
LatOf(b) == Get(b, "lat", Get(b, "latitude", Null))
LonOf(b) == Get(b, "lon", Get(b, "longitude", Null))

\* step 4: the base feature set
BaseFeatures(b, w) ==
    [slope |-> Get(b, "slope", Null),
     rainfall |-> Get(b, "rainfall", Get(w, "rain_1h", Get(b, "rain", Num(DefaultRainfall)))),
     temperature |-> Get(b, "temperature", Get(w, "temp", Num(DefaultTemperature))),
     vibration |-> Get(b, "vibration", Null),
     wind_speed |-> Get(b, "wind_speed", Get(w, "wind_speed", Num(DefaultWindSpeed))),
     displacement_rate |-> Get(b, "displacement_rate", Null)]

NoFeatures ==
    [slope |-> Absent, rainfall |-> Absent, temperature |-> Absent, vibration |-> Absent,
     wind_speed |-> Absent, displacement_rate |-> Absent]

\* step 5: the demo table, keyed by (round(lat, 1), round(lon, 1))
Jharia == <<Num(23000), Num(86500)>>
Talcher == <<Num(22300), Num(84800)>>
Dhanbad == <<Num(23800), Num(85000)>>
DemoKeys == {Jharia, Talcher, Dhanbad}

DemoEntry(key) ==
    IF key = Jharia THEN
        [slope |-> Num(50000), rainfall |-> Num(70000), temperature |-> Num(35000),
         vibration |-> Num(3500), wind_speed |-> Num(10000), displacement_rate |-> Num(500)]
    ELSE IF key = Talcher THEN
        [slope |-> Num(35000), rainfall |-> Num(40000), temperature |-> Num(30000),
         vibration |-> Num(1500), wind_speed |-> Num(6000), displacement_rate |-> Num(300)]
    ELSE
        [slope |-> Num(15000), rainfall |-> Num(10000), temperature |-> Num(25000),
         vibration |-> Num(200), wind_speed |-> Num(2000), displacement_rate |-> Num(100)]

DemoTable == [key \in DemoKeys |-> DemoEntry(key)]
NoTable == [key \in {} |-> NoFeatures]
NoKey == <<Absent, Absent>>

\* (mutation) the demo table is never consulted
IsDemoKeyNever(key, table) == FALSE

\* demo_key in demo_overrides
IsDemoKey(key, table) == key \in DOMAIN table

\* (mutation) the body's and the weather's values are laid over the demo entry
DemoFeaturesOverlaid(key, table, base) ==
    [name \in DOMAIN base |->
        IF Available(base[name]) THEN base[name] ELSE table[key][name]]

\* features = demo_overrides[demo_key]
DemoFeatures(key, table, base) == table[key]

\* step 6: the slope taken from get_slope (None or an exception give the default)
SlopeFromLookup(o) ==
    IF o = Raise THEN Num(DefaultSlope)
    ELSE IF IsNone(o) THEN Num(DefaultSlope)
    ELSE o

\* step 7: sensor_state.get("vibration", 0.0); anything that is no mapping, or an
\* exception, gives 0.0
VibrationFromSensor(o) ==
    IF o.kind = "dict" THEN Get(o, "vibration", Num(DefaultVibration))
    ELSE Num(DefaultVibration)

\* 0.01 * x on thousandths (exact for the multiples of 0.1 used here)
Hundredth(x) == IF x.k = "inf" THEN Inf ELSE Num(x.v \div 100)

\* max(0.01, y)
FloorAt(lowest, y) == IF y.k = "inf" \/ y.v > lowest THEN y ELSE Num(lowest)

\* (mutation) the floor at 0.01 is forgotten
HeuristicNoFloor(slope) == Hundredth(ToFloat(slope, DefaultSlope))

\* max(0.01, 0.01 * _to_float(features["slope"], 30.0))
Heuristic(slope) == FloorAt(10, Hundredth(ToFloat(slope, DefaultSlope)))

\* step 8: displacement_rate when it is still None
DisplacementRate(f, b) ==
    IF ~IsNone(f.displacement_rate) THEN f.displacement_rate
    ELSE LET disp == Get(b, "displacement", Null)
         IN  IF ~IsNone(disp)
             THEN (IF Floatable(disp) THEN disp ELSE Num(10))
             ELSE Heuristic(f.slope)

\* step 9: every feature coerced to float, each with its own fallback
Coerce(f) ==
    [rainfall |-> ToFloat(Get(f, "rainfall", Num(DefaultRainfall)), DefaultRainfall),
     temperature |-> ToFloat(Get(f, "temperature", Num(DefaultTemperature)), DefaultTemperature),
     slope |-> ToFloat(Get(f, "slope", Num(DefaultSlope)), DefaultSlope),
     wind_speed |-> ToFloat(Get(f, "wind_speed", Num(DefaultWindSpeed)), DefaultWindSpeed),
     displacement_rate |-> ToFloat(Get(f, "displacement_rate", Num(DefaultDisplacementRate)),
                                   DefaultDisplacementRate),
     vibration |-> ToFloat(Get(f, "vibration", Num(DefaultVibration)), DefaultVibration)]

\* steps 8 and 9 together
Finish(f, b) == Coerce([f EXCEPT !.displacement_rate = DisplacementRate(f, b)])

---------------------------------------------------------------------------
(* app/models/predictor.py: predict *)

HighThreshold == 70000
MediumThreshold == 40000
LabelThreshold == 50000

\* (mutation) the upper threshold is inclusive
RiskLabelInclusive(p) ==
    IF p >= HighThreshold THEN "high" ELSE IF p > MediumThreshold THEN "medium" ELSE "low"

\* "high" if prob > 0.7 else ("medium" if prob > 0.4 else "low")
RiskLabel(p) ==
    IF p > HighThreshold THEN "high" ELSE IF p > MediumThreshold THEN "medium" ELSE "low"

\* (mutation) the flag threshold is inclusive
RockfallPredictedInclusive(p) == IF p >= LabelThreshold THEN 1 ELSE 0

\* int(prob > 0.5)
RockfallPredicted(p) == IF p > LabelThreshold THEN 1 ELSE 0

NoResult == [risk |-> "none", probability |-> 0, rockfall_predicted |-> 0]

\* predict(features) with predict_proba answering m and round(prob, 3) giving r:
\* the exception it raises ("none": it returns), whether predict_proba was reached,
\* the raw probability and the result
Predict(f, mdl, m, r) ==
    IF mdl = "none" THEN
        [exc |-> "RuntimeError", reached |-> FALSE, prob |-> -1, result |-> NoResult]
    ELSE IF \E key \in FeatureKeys : f[key].k = "absent" THEN
        [exc |-> "ValueError", reached |-> FALSE, prob |-> -1, result |-> NoResult]
    ELSE IF \E key \in FeatureKeys : ~Floatable(f[key]) THEN
        [exc |-> "RuntimeError", reached |-> FALSE, prob |-> -1, result |-> NoResult]
    ELSE IF m = Raise THEN
        [exc |-> "RuntimeError", reached |-> TRUE, prob |-> -1, result |-> NoResult]
    ELSE
        [exc |-> "none", reached |-> TRUE, prob |-> m.v,
         result |-> [risk |-> RiskLabel(m.v), probability |-> r,
                     rockfall_predicted |-> RockfallPredicted(m.v)]]

\* the status the handler answers with for what risk_score did
StatusOf(exc) ==
    IF exc = "RuntimeError" THEN 503
    ELSE IF exc # "none" THEN 500
    ELSE 200

ErrorOf(exc) ==
    IF exc = "RuntimeError" THEN "Model not loaded on server"
    ELSE IF exc # "none" THEN "Model prediction failed"
    ELSE ""

\* step 11: the alert for a prediction
AlertOf(res) ==
    IF res.risk = "high" THEN "HIGH RISK"
    ELSE IF res.risk = "medium" THEN "MODERATE RISK"
    ELSE IF res.risk = "low" THEN "LOW RISK"
    ELSE IF res.probability > HighThreshold THEN "HIGH RISK"
    ELSE IF res.probability > MediumThreshold THEN "MODERATE RISK"
    ELSE "LOW RISK"

---------------------------------------------------------------------------
(* The handler as a state machine *)

Init ==
    /\ pc = "idle"
    /\ model \in {"loaded", "none"}
    /\ body = NoBody
    /\ lat = Absent
    /\ lon = Absent
    /\ weather_data = EmptyWeather
    /\ demo_overrides = NoTable
    /\ demo_key = NoKey
    /\ slope_lookup = NotCalled
    /\ sensor_state = NoSensor
    /\ features = NoFeatures
    /\ calls = {}
    /\ prob = -1
    /\ result = NoResult
    /\ status = 0
    /\ error = ""
    /\ details = FALSE
    /\ alert = ""

\* steps 1 and 2 on a body that parses to a mapping
Accept(b) ==
    /\ body' = b
    /\ IF IsNone(LatOf(b)) \/ IsNone(LonOf(b)) THEN
           /\ status' = 400
           /\ error' = "Please provide 'lat' and 'lon'"
           /\ pc' = "done"
           /\ UNCHANGED <<lat, lon>>
       ELSE IF ~Floatable(LatOf(b)) \/ ~Floatable(LonOf(b)) THEN
           /\ status' = 400
           /\ error' = "Latitude and longitude must be numeric"
           /\ pc' = "done"
           /\ UNCHANGED <<lat, lon>>
       ELSE
           /\ lat' = LatOf(b)
           /\ lon' = LonOf(b)
           /\ pc' = "weather"
           /\ UNCHANGED <<status, error>>
    /\ UNCHANGED <<model, weather_data, demo_overrides, demo_key, slope_lookup,
                   sensor_state, features, calls, prob, result, details, alert>>

\* step 1 on a body that is not JSON
RequestInvalidJson ==
    /\ pc = "idle"
    /\ status' = 400
    /\ error' = "Invalid JSON body"
    /\ pc' = "done"
    /\ UNCHANGED <<model, body, lat, lon, weather_data, demo_overrides, demo_key,
                   slope_lookup, sensor_state, features, calls, prob, result,
                   details, alert>>

\* steps 3 to 5: the weather fetch, the base features and the demo table; on a demo
\* key the handler goes straight to step 9
WeatherGives(w) ==
    /\ calls' = calls \cup {"weather"}
    /\ weather_data' = (IF w.kind = "dict" THEN w.data ELSE EmptyWeather)
    /\ demo_overrides' = DemoTable
    /\ \E rlat \in RoundedValue(lat), rlon \in RoundedValue(lon) :
          demo_key' = <<rlat, rlon>>
    /\ LET base == BaseFeatures(body, weather_data')
       IN  IF IsDemoKey(demo_key', demo_overrides') THEN
               /\ features' = Coerce(DemoFeatures(demo_key', demo_overrides', base))
               /\ pc' = "classify"
           ELSE IF IsNone(base.slope) THEN
               /\ features' = base
               /\ pc' = "slope"
           ELSE IF IsNone(base.vibration) THEN
               /\ features' = base
               /\ pc' = "sensor"
           ELSE
               /\ features' = Finish(base, body)
               /\ pc' = "classify"
    /\ UNCHANGED <<model, body, lat, lon, slope_lookup, sensor_state, prob, result,
                   status, error, details, alert>>

\* step 6: the slope lookup
SlopeGives(o) ==
    /\ calls' = calls \cup {"slope"}
    /\ slope_lookup' = o
    /\ LET f == [features EXCEPT !.slope = SlopeFromLookup(o)]
       IN  IF IsNone(f.vibration) THEN
               /\ features' = f
               /\ pc' = "sensor"
           ELSE
               /\ features' = Finish(f, body)
               /\ pc' = "classify"
    /\ UNCHANGED <<model, body, lat, lon, weather_data, demo_overrides, demo_key,
                   sensor_state, prob, result, status, error, details, alert>>

\* step 7: the sensor read, then steps 8 and 9
SensorGives(o) ==
    /\ calls' = calls \cup {"sensor"}
    /\ sensor_state' = o
    /\ features' = Finish([features EXCEPT !.vibration = VibrationFromSensor(o)], body)
    /\ pc' = "classify"
    /\ UNCHANGED <<model, body, lat, lon, weather_data, demo_overrides, demo_key,
                   slope_lookup, prob, result, status, error, details, alert>>

\* steps 10 and 11: risk_score(features) and the response
ModelGives(m) ==
    /\ \E r \in (IF m.k = "num" THEN Rounded(m.v, 100) ELSE {0}) :
          LET out == Predict(features, model, m, r)
          IN  /\ calls' = calls \cup {"risk_score"}
                           \cup (IF out.reached THEN {"predict_proba"} ELSE {})
              /\ prob' = out.prob
              /\ result' = out.result
              /\ status' = StatusOf(out.exc)
              /\ error' = ErrorOf(out.exc)
              /\ details' = (StatusOf(out.exc) = 500)
              /\ alert' = (IF out.exc = "none" THEN AlertOf(out.result) ELSE "")
    /\ pc' = "done"
    /\ UNCHANGED <<model, body, lat, lon, weather_data, demo_overrides, demo_key,
                   slope_lookup, sensor_state, features>>

\* the response is sent and the request's locals are dropped
Return ==
    /\ pc = "done"
    /\ pc' = "idle"
    /\ body' = NoBody
    /\ lat' = Absent
    /\ lon' = Absent
    /\ weather_data' = EmptyWeather
    /\ demo_overrides' = NoTable
    /\ demo_key' = NoKey
    /\ slope_lookup' = NotCalled
    /\ sensor_state' = NoSensor
    /\ features' = NoFeatures
    /\ calls' = {}
    /\ prob' = -1
    /\ result' = NoResult
    /\ status' = 0
    /\ error' = ""
    /\ details' = FALSE
    /\ alert' = ""
    /\ UNCHANGED model

\* POST /predict with a body that parses to a mapping
Request == pc = "idle" /\ \E b \in Bodies : Accept(b)

\* fetch_openweather answers
FetchWeather == pc = "weather" /\ \E w \in WeatherOutcomes : WeatherGives(w)

\* get_slope answers
GetSlope == pc = "slope" /\ \E o \in SlopeOutcomes : SlopeGives(o)

\* get_latest_sensor_state answers
ReadSensor == pc = "sensor" /\ \E o \in SensorOutcomes : SensorGives(o)

\* risk_score runs, predict_proba answering
Classify == pc = "classify" /\ \E m \in ModelOutcomes : ModelGives(m)

Next ==
    \/ Request
    \/ RequestInvalidJson
    \/ FetchWeather
    \/ GetSlope
    \/ ReadSensor
    \/ Classify
    \/ Return

Spec == Init /\ [][Next]_vars

---------------------------------------------------------------------------
(* The classifier over the whole probability range *)

Probabilities == 0 .. 100000

\* the handler about to classify a Jharia request, with the model loaded
InitRisk ==
    /\ pc = "classify"
    /\ model = "loaded"
    /\ body = MakeBody([lat |-> Num(23040), latitude |-> Absent, lon |-> Num(86530),
                        longitude |-> Absent], NoOverrides)
    /\ lat = Num(23040)
    /\ lon = Num(86530)
    /\ weather_data = EmptyWeather
    /\ demo_overrides = DemoTable
    /\ demo_key = Jharia
    /\ slope_lookup = NotCalled
    /\ sensor_state = NoSensor
    /\ features = Coerce(DemoEntry(Jharia))
    /\ calls = {"weather"}
    /\ prob = -1
    /\ result = NoResult
    /\ status = 0
    /\ error = ""
    /\ details = FALSE
    /\ alert = ""

\* risk_score runs, predict_proba answering any probability
ClassifyAny == pc = "classify" /\ \E p \in Probabilities : ModelGives(Num(p))

NextRisk == ClassifyAny

SpecRisk == InitRisk /\ [][NextRisk]_vars

---------------------------------------------------------------------------
(* Vocabulary of the properties *)

\* the request's coordinates were accepted
ValidCoordinates == Floatable(lat) /\ Floatable(lon)

\* the accepted coordinates, each rounded to one decimal, are a demo entry
RequestIsDemo ==
    /\ ValidCoordinates
    /\ \A rlat \in RoundedValue(lat), rlon \in RoundedValue(lon) : <<rlat, rlon>> \in DemoKeys

\* the accepted coordinates are no demo entry
RequestIsNotDemo ==
    /\ ValidCoordinates
    /\ \A rlat \in RoundedValue(lat), rlon \in RoundedValue(lon) : <<rlat, rlon>> \notin DemoKeys

\* the feature vector is final: it is the one handed to risk_score
Resolved == pc \in {"classify", "done"}

---------------------------------------------------------------------------
(* C1: demo requests and the external lookups *)

---------------------------------------------------------------------------
(* C2: 503 and 500 *)

\* C2: for a request with valid coordinates the status is 503 exactly when the
\* model failed to load; a missing model never gives 200, and with a loaded
\* model a failed prediction is a 500 with an error message and details.
C2_Status503IffModelMissing ==
    (pc = "done" /\ ValidCoordinates) =>
        /\ status = 503 <=> model = "none"
        /\ model = "none" => status # 200
        /\ (model = "loaded" /\ status # 200) =>
               (status = 500 /\ details /\ error = "Model prediction failed")

---------------------------------------------------------------------------
(* C3: rainfall *)

\* the weather snapshot's hourly rain figure, as C3 defines it
HourlyRain(w) ==
    IF w.rain.k = "dict" THEN
        (IF Available(w.rain1h) THEN w.rain1h
         ELSE IF Available(w.rain3h) THEN Num(w.rain3h.v \div 3)
         ELSE Num(0))
    ELSE w.rain

\* C3's first available of override, hourly rain, raw rain, 10.0
ClaimedRainfall(b, w) ==
    IF Available(b.rainfall) THEN b.rainfall
    ELSE IF Available(HourlyRain(w)) THEN HourlyRain(w)
    ELSE IF Available(b.rain) THEN b.rain
    ELSE Num(10000)

\* C3: on a non-demo request rainfall is the first available of the rainfall
\* override, the weather snapshot's hourly rain figure (the number, or the
\* mapping's 1h value, else its 3h value / 3, else 0), the raw rain field, 10.0.
\* Stated for snapshots of the shape the claim names, which carry "rain".
C3_RainfallPrecedence ==
    (Resolved /\ RequestIsNotDemo /\ weather_data.rain_1h = Absent) =>
        features.rainfall = ToFloat(ClaimedRainfall(body, weather_data), 10000)

---------------------------------------------------------------------------
(* C4: coordinate validation *)

\* one of the two naming variants supplies a number
SuppliesNumber(b, short, long) == Floatable(b[short]) \/ Floatable(b[long])

\* C4: a request is rejected with 400 exactly when, for latitude or longitude,
\* no naming variant supplies a numeric value; and a request rejected for its
\* coordinates causes no lookup and no model invocation.
C4_RejectedIffNoCoordinate ==
    pc # "idle" =>
        /\ status = 400 <=>
               ~(SuppliesNumber(body, "lat", "latitude")
                 /\ SuppliesNumber(body, "lon", "longitude"))
        /\ status = 400 => calls = {}

---------------------------------------------------------------------------
(* C5: the feature vector handed to the classifier *)

\* C5: for every request with valid coordinates the vector handed to the
\* classifier has the six fields, each a finite number, whatever the lookups and
\* the overrides were, and the classifier is always invoked.
C5_SixFiniteFeatures ==
    /\ (Resolved /\ ValidCoordinates) =>
           \A key \in FeatureKeys : Finite(features[key])
    /\ (pc = "done" /\ ValidCoordinates) => "risk_score" \in calls

---------------------------------------------------------------------------
(* C6, C7: thresholds *)

\* C6: risk is "high" iff p > 0.7, "medium" iff 0.4 < p <= 0.7, "low" iff
\* p <= 0.4; rockfall_predicted is 1 iff p > 0.5; so 0.70 is "medium" and every
\* p in (0.5, 0.7] is "medium" with rockfall_predicted 1.
C6_Thresholds ==
    (pc = "done" /\ status = 200) =>
        /\ result.risk \in {"low", "medium", "high"}
        /\ result.risk = "high" <=> prob > 70000
        /\ result.risk = "medium" <=> (40000 < prob /\ prob <= 70000)
        /\ result.risk = "low" <=> prob <= 40000
        /\ result.rockfall_predicted = 1 <=> prob > 50000
        /\ result.rockfall_predicted \in {0, 1}
        /\ (50000 < prob /\ prob <= 70000) =>
               (result.risk = "medium" /\ result.rockfall_predicted = 1)

C6_Witness ==
    /\ pc = "done"
    /\ status = 200
    /\ prob = 70000
    /\ result.risk = "medium"
    /\ result.rockfall_predicted = 1

\* C7 as stated: in every returned prediction rockfall_predicted is 1 iff the
\* returned (rounded to 3 decimals) probability is greater than 0.5.
C7_FlagIffRoundedAboveHalf ==
    (pc = "done" /\ status = 200) =>
        (result.rockfall_predicted = 1 <=> result.probability > 50000)

\* C7 amended: the flag follows the unrounded probability, so against the
\* returned probability: above 0.5 the flag is 1, below 0.5 it is 0, and at a
\* returned 0.5 it is 1 exactly when the unrounded probability exceeded 0.5.
C7_FlagAgainstRounded ==
    (pc = "done" /\ status = 200) =>
        /\ result.probability > 50000 => result.rockfall_predicted = 1
        /\ result.probability < 50000 => result.rockfall_predicted = 0
        /\ result.probability = 50000 =>
               (result.rockfall_predicted = 1 <=> prob > 50000)
        /\ result.probability \in Rounded(prob, 100)

C7_Witness ==
    /\ pc = "done"
    /\ status = 200
    /\ result.probability = 50000
    /\ result.rockfall_predicted = 1
    /\ prob > 50000

---------------------------------------------------------------------------
(* C8: the demo entry verbatim *)

\* C8: on a demo request the feature vector handed to the classifier and
\* returned is the entry's six values, whatever overrides the body carries and
\* whatever the weather source returned; the table stays as it was built, so a
\* later request finds the same values.
C8_DemoVerbatim ==
    (Resolved /\ RequestIsDemo) =>
        /\ demo_key \in DemoKeys
        /\ features = DemoEntry(demo_key)
        /\ demo_overrides = DemoTable
        /\ demo_key = Jharia =>
               features = [slope |-> Num(50000), rainfall |-> Num(70000),
                           temperature |-> Num(35000), vibration |-> Num(3500),
                           wind_speed |-> Num(10000), displacement_rate |-> Num(500)]

C8_Witness ==
    /\ pc = "done"
    /\ status = 200
    /\ demo_key = Jharia
    /\ body.slope = Num(40000)
    /\ body.rainfall = Num(5000)
    /\ weather_data.temp = Num(20000)
    /\ features.slope = Num(50000)
    /\ features.rainfall = Num(70000)

---------------------------------------------------------------------------
(* C9: temperature, wind_speed, vibration, slope *)

\* first available of an override and a source, else the default
FirstAvailable(override, source, default) ==
    IF Available(override) THEN ToFloat(override, default)
    ELSE IF Available(source) THEN ToFloat(source, default)
    ELSE Num(default)

\* what the sources supplied (nothing when the lookup was not made or failed)
SensorVibration ==
    IF sensor_state.kind = "dict" THEN sensor_state.vibration ELSE Absent
LookedUpSlope == IF slope_lookup.k \in {"notcalled", "raise"} THEN Absent ELSE slope_lookup

---------------------------------------------------------------------------
(* C10: displacement_rate *)

\* max(0.01, 0.01 x slope) written out on thousandths
OnePercentFloored(slope) ==
    IF slope.k = "inf" THEN Inf
    ELSE IF slope.v <= 1000 THEN Num(10)
    ELSE Num(slope.v \div 100)

\* C10: on a non-demo request displacement_rate is the displacement_rate
\* override if supplied, else the displacement field if supplied (0.01 when not
\* numeric), else max(0.01, 0.01 x slope) for the slope of the final vector; on
\* that last path it is never below 0.01, 0.4 for slope 40 and 0.01 for any
\* slope <= 1.
C10_DisplacementRate ==
    (Resolved /\ RequestIsNotDemo) =>
        /\ features.displacement_rate =
               (IF Available(body.displacement_rate)
                THEN (IF Floatable(body.displacement_rate)
                      THEN body.displacement_rate ELSE Num(10))
                ELSE IF Available(body.displacement)
                THEN (IF Floatable(body.displacement) THEN body.displacement ELSE Num(10))
                ELSE OnePercentFloored(features.slope))
        /\ (~Available(body.displacement_rate) /\ ~Available(body.displacement)) =>
               /\ features.displacement_rate.k = "num" => features.displacement_rate.v >= 10
               /\ features.slope = Num(40000) => features.displacement_rate = Num(400)
               /\ (features.slope.k = "num" /\ features.slope.v <= 1000) =>
                      features.displacement_rate = Num(10)

C10_Witness ==
    /\ pc = "done"
    /\ RequestIsNotDemo
    /\ ~Available(body.displacement_rate)
    /\ ~Available(body.displacement)
    /\ ~Available(body.slope)
    /\ slope_lookup = Num(500)
    /\ features.slope = Num(500)
    /\ features.displacement_rate = Num(10)

====
